---- MODULE Spec2Model ----
(***************************************************************************)
(* Model of MollieService (webhook reconciliation of Mollie orders against *)
(* Vendure orders) and of the Order Store operations it calls, and of      *)
(* PromotionService with its cache of active promotions.                   *)
(***************************************************************************)
EXTENDS Integers, Sequences, FiniteSets, TLC

VARIABLES
    orders,   \* order code -> Order (the Order Store's rows)
    last,     \* the most recent service call: its inputs, the orders before it,
              \* the requests it made to its collaborators, and its result
    promotions,        \* the stored Promotion rows, by id
    activePromotions,  \* PromotionService.activePromotions, the cache
    runs      \* worker -> the call of handleMollieStatusUpdate it is in the middle of:
              \* its position (pc) and its local variables

vars == <<orders, last, promotions, activePromotions, runs>>

\* the variables of PromotionService and of the calls in progress
others == <<promotions, activePromotions, runs>>

----------------------------------------------------------------------------
(* Bounds *)

\* the most notifications one Mollie order sends
MaxNotifications == 3

\* the service is not called on an order that already has this many Payments
MaxPayments == 2

----------------------------------------------------------------------------
(* Data *)

OrderCodes == {"T1", "T2"}

UnknownOrderCode == "T404"

OrderStates ==
    {"AddingItems", "ArrangingPayment", "ArrangingAdditionalPayment",
     "PaymentAuthorized", "PaymentSettled", "Draft", "Shipped", "Cancelled"}

\* OrderStatus of @mollie/api-client
MollieStatuses == {"pending", "authorized", "paid", "completed", "expired"}

\* The orders the provider knows: client.orders.get(orderId).  The amount is a
\* decimal (units and hundredths), orderNumber is the code of the Vendure order.
MollieOrders ==
    [ord_A |-> [orderNumber |-> "T1",   units |-> 10, hundredths |-> 0],
     ord_B |-> [orderNumber |-> "T1",   units |-> 5,  hundredths |-> 50],
     ord_C |-> [orderNumber |-> "T2",   units |-> 10, hundredths |-> 0],
     ord_X |-> [orderNumber |-> "T404", units |-> 10, hundredths |-> 0]]

MollieOrderIds == DOMAIN MollieOrders

\* transaction id of a Payment that did not come from one of the Mollie orders above
OtherTransactionId == "tr_other"

\* paymentMethodService.findOne(ctx, paymentMethodId): the configured methods
PaymentMethods ==
    [pm_manual |-> [code |-> "mollie-manual", apiKey |-> TRUE,  autoCapture |-> FALSE,
                    redirectUrl |-> TRUE],
     pm_auto   |-> [code |-> "mollie-auto",   apiKey |-> TRUE,  autoCapture |-> TRUE,
                    redirectUrl |-> FALSE],
     pm_nokey  |-> [code |-> "mollie-nokey",  apiKey |-> FALSE, autoCapture |-> FALSE,
                    redirectUrl |-> TRUE]]

UnknownPaymentMethodId == "pm_404"

PaymentMethodIds == DOMAIN PaymentMethods \cup {UnknownPaymentMethodId}

OrderTotals == {1000, 1550}

\* amountToCents(mollieOrder.amount)
amountToCents(a) == a.units * 100 + a.hundredths

----------------------------------------------------------------------------
(* Order Store *)

RECURSIVE SumAmounts(_, _)
SumAmounts(ps, states) ==
    IF ps = <<>> THEN 0
    ELSE (IF Head(ps).state \in states THEN Head(ps).amount ELSE 0)
         + SumAmounts(Tail(ps), states)

\* totalCoveredByPayments(order, state)
totalCoveredByPayments(o, states) == SumAmounts(o.payments, states)

\* the transitions to ArrangingPayment the Order State Machine knows
CanTransition(from, to) ==
    to = "ArrangingPayment" /\ from \in {"AddingItems", "Draft"}

\* orderService.transitionToState(ctx, order.id, state): the order in the new
\* state, or an OrderStateTransitionError (ok = FALSE) that leaves it as it is.
\* accept = FALSE is a rejection by a guard of the state machine.
transitionToState(o, state, accept) ==
    IF accept /\ CanTransition(o.state, state)
    THEN [ok |-> TRUE, order |-> [o EXCEPT !.state = state]]
    ELSE [ok |-> FALSE, order |-> o]

\* the state an order moves to once its Payments cover its total
SettleOrderState(o) ==
    IF o.state \notin {"ArrangingPayment", "ArrangingAdditionalPayment", "PaymentAuthorized"}
    THEN o
    ELSE IF totalCoveredByPayments(o, {"Settled"}) >= o.totalWithTax
    THEN [o EXCEPT !.state = "PaymentSettled", !.orderPlacedAt = TRUE]
    ELSE IF totalCoveredByPayments(o, {"Authorized", "Settled"}) >= o.totalWithTax
            /\ o.state # "PaymentAuthorized"
    THEN [o EXCEPT !.state = "PaymentAuthorized", !.orderPlacedAt = TRUE]
    ELSE o

\* orderService.addPaymentToOrder(ctx, order.id, input): the handler's
\* createPayment makes a Payment from the metadata (transactionId = metadata.orderId,
\* amount = metadata.amount, state = metadata.status).
addPaymentToOrder(o, transactionId, amount, status, accept) ==
    IF accept /\ o.state \in {"ArrangingPayment", "ArrangingAdditionalPayment"}
    THEN LET p == [id |-> Len(o.payments) + 1, transactionId |-> transactionId,
                   amount |-> amount, state |-> status]
         IN [ok |-> TRUE,
             order |-> SettleOrderState([o EXCEPT !.payments = Append(@, p)])]
    ELSE [ok |-> FALSE, order |-> o]

\* orderService.settlePayment(ctx, payment.id)
settlePayment(o, paymentId, accept) ==
    IF accept /\ paymentId \in DOMAIN o.payments
    THEN [ok |-> TRUE,
          order |-> SettleOrderState([o EXCEPT !.payments[paymentId].state = "Settled"])]
    ELSE [ok |-> FALSE, order |-> o]

----------------------------------------------------------------------------
(* MollieService *)

\* one request the service made to a collaborator, as the service saw it answered
Call(op, status, amount, paymentId, ok) ==
    [op |-> op, status |-> status, amount |-> amount, paymentId |-> paymentId, ok |-> ok]

\* the value a call returns: the order as the store holds it afterwards, the
\* requests made, and the error thrown ("" when the call returned normally)
Outcome(o, calls, error) == [order |-> o, calls |-> calls, error |-> error]

\* order.payments.find(p => p.transactionId === mollieOrderId): the first match, 0 if none
FindPaymentId(payments, transactionId) ==
    LET matches == {i \in DOMAIN payments : payments[i].transactionId = transactionId}
    IN IF matches = {} THEN 0
       ELSE payments[CHOOSE i \in matches : \A j \in matches : i <= j].id

\* faulty variant: only ArrangingPayment counts as arranging a payment
NeedsArrangingPayment_OnlyArranging(o) == o.state # "ArrangingPayment"

\* order.state !== 'ArrangingPayment' && order.state !== 'ArrangingAdditionalPayment'
NeedsArrangingPayment(o) ==
    o.state # "ArrangingPayment" /\ o.state # "ArrangingAdditionalPayment"

\* MollieService.addPayment
addPayment(o, amount, transactionId, status, env) ==
    LET needs == NeedsArrangingPayment(o)
        t == IF needs THEN transitionToState(o, "ArrangingPayment", env.transition)
             ELSE [ok |-> TRUE, order |-> o]
        c1 == <<Call("addPayment", status, amount, 0, TRUE)>>
              \o (IF needs THEN <<Call("transitionToState", "ArrangingPayment", 0, 0, t.ok)>>
                  ELSE <<>>)
    IN IF ~t.ok THEN Outcome(t.order, c1, "StateTransitionError")
       ELSE LET a == addPaymentToOrder(t.order, transactionId, amount, status, env.attach)
                c2 == <<Call("addPaymentToOrder", status, amount,
                             IF a.ok THEN Len(a.order.payments) ELSE 0, a.ok)>>
            IN Outcome(a.order, c1 \o c2, IF a.ok THEN "" ELSE "PaymentAttachError")

\* faulty variant: the result of settlePayment is not looked at
settleExistingPayment_IgnoresResult(o, mollieOrderId, env) ==
    LET paymentId == FindPaymentId(o.payments, mollieOrderId)
        c1 == <<Call("settleExistingPayment", "", 0, 0, TRUE)>>
    IN IF paymentId = 0 THEN Outcome(o, c1, "PaymentNotFoundError")
       ELSE LET s == settlePayment(o, paymentId, env.settle)
            IN Outcome(s.order, c1 \o <<Call("settlePayment", "", 0, paymentId, s.ok)>>, "")

\* MollieService.settleExistingPayment
settleExistingPayment(o, mollieOrderId, env) ==
    LET paymentId == FindPaymentId(o.payments, mollieOrderId)
        c1 == <<Call("settleExistingPayment", "", 0, 0, TRUE)>>
    IN IF paymentId = 0 THEN Outcome(o, c1, "PaymentNotFoundError")
       ELSE LET s == settlePayment(o, paymentId, env.settle)
            IN Outcome(s.order, c1 \o <<Call("settlePayment", "", 0, paymentId, s.ok)>>,
                       IF s.ok THEN "" ELSE "SettlementError")

\* faulty variant: an expired Mollie order is taken to require action
mollieStatesThatRequireAction_Expired == {"completed", "authorized", "paid", "expired"}

mollieStatesThatRequireAction == {"completed", "authorized", "paid"}

\* faulty variant: a settled order is still acted on
vendureStatesThatRequireAction_Settled ==
    {"AddingItems", "ArrangingPayment", "ArrangingAdditionalPayment", "PaymentAuthorized",
     "Draft", "PaymentSettled"}

vendureStatesThatRequireAction ==
    {"AddingItems", "ArrangingPayment", "ArrangingAdditionalPayment", "PaymentAuthorized", "Draft"}

\* faulty variant: the guard looks at the order state instead of orderPlacedAt
IsPaidTwice_ByState(o, mollieOrderId) ==
    o.state = "PaymentSettled" /\ FindPaymentId(o.payments, mollieOrderId) = 0

\* order.orderPlacedAt is set and no Payment of the order has this transactionId
IsPaidTwice(o, mollieOrderId) ==
    o.orderPlacedAt /\ FindPaymentId(o.payments, mollieOrderId) = 0

\* the branch a call returned from, in place of "no error"
Returned(r, branch) == [r EXCEPT !.error = IF @ = "" THEN branch ELSE @]

\* faulty variant: the paid row adds the Payment as Authorized
paidRow_Authorized(o, mollieOrderId, amount, env) ==
    Returned(addPayment(o, amount, mollieOrderId, "Authorized", env), "Paid")

\* status paid: addPayment(..., 'Settled'); return
paidRow(o, mollieOrderId, amount, env) ==
    Returned(addPayment(o, amount, mollieOrderId, "Settled", env), "Paid")

\* faulty variant: the authorized row is taken in every order state
IsAuthorizedRow_AnyState(o, status) == status = "authorized"

\* order.state === 'AddingItems' && mollieOrder.status === OrderStatus.authorized
IsAuthorizedRow(o, status) == o.state = "AddingItems" /\ status = "authorized"

\* faulty variant: the authorized row captures whether or not autoCapture is set
authorizedRow_AlwaysCapture(o, mollieOrderId, status, amount, autoCapture, env) ==
    LET r == addPayment(o, amount, mollieOrderId, "Authorized", env)
    IN IF r.error # "" THEN r
       ELSE LET s == settleExistingPayment(r.order, mollieOrderId, env)
            IN Returned(Outcome(s.order, r.calls \o s.calls, s.error), "AutoCaptured")

\* addPayment(..., 'Authorized'), then settleExistingPayment if autoCapture; return
authorizedRow(o, mollieOrderId, status, amount, autoCapture, env) ==
    LET r == addPayment(o, amount, mollieOrderId, "Authorized", env)
    IN IF r.error # "" THEN r
       ELSE IF autoCapture /\ status = "authorized"
       THEN LET s == settleExistingPayment(r.order, mollieOrderId, env)
            IN Returned(Outcome(s.order, r.calls \o s.calls, s.error), "AutoCaptured")
       ELSE Returned(r, "Authorized")

\* faulty variant: with autoCapture the completed status is never handled
IsCompletedRow_NotAutoCapture(o, status, autoCapture) ==
    o.state = "PaymentAuthorized" /\ status = "completed" /\ ~autoCapture

\* order.state === 'PaymentAuthorized' && mollieOrder.status === OrderStatus.completed
IsCompletedRow(o, status, autoCapture) ==
    o.state = "PaymentAuthorized" /\ status = "completed"

\* faulty variant: the completed row returns without settling
completedRow_Noop(o, mollieOrderId, env) == Outcome(o, <<>>, "Completed")

\* return this.settleExistingPayment(ctx, order, mollieOrder.id)
completedRow(o, mollieOrderId, env) ==
    Returned(settleExistingPayment(o, mollieOrderId, env), "Completed")

\* autoCapture && mollieOrder.status === OrderStatus.completed
IsAutoCaptureRow(status, autoCapture) == autoCapture /\ status = "completed"

\* the rows of handleMollieStatusUpdate that act on the order, in the order of the code
StatusUpdateRows(o, mollieOrderId, status, amount, autoCapture, env) ==
    IF status = "paid" THEN paidRow(o, mollieOrderId, amount, env)
    ELSE IF IsAuthorizedRow(o, status)
    THEN authorizedRow(o, mollieOrderId, status, amount, autoCapture, env)
    ELSE IF IsCompletedRow(o, status, autoCapture) THEN completedRow(o, mollieOrderId, env)
    ELSE IF IsAutoCaptureRow(status, autoCapture) THEN Outcome(o, <<>>, "AutoCaptureNoop")
    ELSE Outcome(o, <<>>, "UnhandledTransitionError")

\* the outcomes of handleMollieStatusUpdate that are thrown errors
Errors ==
    {"NoApiKeyError", "ProviderFetchError", "OrderNotFoundError", "StateTransitionError",
     "PaymentAttachError", "PaymentNotFoundError", "SettlementError",
     "UnhandledTransitionError"}

NoOrder == [state |-> "none", orderPlacedAt |-> FALSE, payments |-> <<>>, totalWithTax |-> 0]

\* what one call of handleMollieStatusUpdate does: the orders afterwards, the
\* collaborators read, the requests made to the Order Store, and the result
\* (an element of Errors when the call throws, else the branch that returned)
Handled(os, orderNumber, o, reads, calls, result) ==
    [orders |-> IF orderNumber \in DOMAIN os THEN [os EXCEPT ![orderNumber] = o] ELSE os,
     reads |-> reads, calls |-> calls, result |-> result]

\* faulty variant: an unknown paymentMethodId is reported to the caller
paymentMethodNotFound_Throws(os) ==
    Handled(os, UnknownOrderCode, NoOrder, <<"paymentMethod">>, <<>>, "NoApiKeyError")

\* if (!paymentMethod) return Logger.warn(...): fail silently
paymentMethodNotFound(os) ==
    Handled(os, UnknownOrderCode, NoOrder, <<"paymentMethod">>, <<>>, "NoPaymentMethod")

\* faulty variant: the status gate is applied before the order is missed
orderNotFound_AfterStatusGate(os, code, status, reads) ==
    Handled(os, code, NoOrder, reads, <<>>,
            IF status \notin mollieStatesThatRequireAction THEN "IgnoredStatus"
            ELSE "OrderNotFoundError")

\* if (!order) throw Error(`Unable to find order ...`)
orderNotFound(os, code, status, reads) ==
    Handled(os, code, NoOrder, reads, <<>>, "OrderNotFoundError")

\* MollieService.handleMollieStatusUpdate
handleMollieStatusUpdate(os, paymentMethodId, orderId, status, env) ==
    IF paymentMethodId \notin DOMAIN PaymentMethods
    THEN paymentMethodNotFound(os)
    ELSE LET paymentMethod == PaymentMethods[paymentMethodId]
             autoCapture == paymentMethod.autoCapture
             mollieOrder == MollieOrders[orderId]
             code == mollieOrder.orderNumber
         IN
    IF ~paymentMethod.apiKey
    THEN Handled(os, UnknownOrderCode, NoOrder, <<"paymentMethod">>, <<>>, "NoApiKeyError")
    ELSE IF ~env.fetch
    THEN Handled(os, UnknownOrderCode, NoOrder, <<"paymentMethod", "mollieOrder">>, <<>>,
                 "ProviderFetchError")
    ELSE LET reads == <<"paymentMethod", "mollieOrder", "order">> IN
    IF code \notin DOMAIN os
    THEN orderNotFound(os, code, status, reads)
    ELSE LET order == os[code] IN
    IF status \notin mollieStatesThatRequireAction
    THEN Handled(os, code, order, reads, <<>>, "IgnoredStatus")
    ELSE IF IsPaidTwice(order, orderId)
    THEN Handled(os, code, order, reads, <<>>, "PaidTwice")
    ELSE IF order.state \notin vendureStatesThatRequireAction
    THEN Handled(os, code, order, reads, <<>>, "IgnoredState")
    ELSE LET r == StatusUpdateRows(order, orderId, status, amountToCents(mollieOrder),
                                   autoCapture, env)
         IN Handled(os, code, r.order, reads, r.calls, r.error)

----------------------------------------------------------------------------
(* The system: webhook notifications handled one at a time *)

\* the Payments an order can have when a notification arrives: one made for a
\* Mollie order has that order's amount
Payments ==
    {p \in [id : {1}, transactionId : {"ord_A", "ord_B", OtherTransactionId},
            amount : {550, 1000}, state : {"Authorized", "Settled"}] :
        p.transactionId \in DOMAIN MollieOrders
            => p.amount = amountToCents(MollieOrders[p.transactionId])}

\* the orders a notification can find: state, placement timestamp and Payments
\* agree the way the Order Store keeps them
ConsistentOrder(o) ==
    LET settled == totalCoveredByPayments(o, {"Settled"})
        covered == totalCoveredByPayments(o, {"Authorized", "Settled"})
    IN CASE o.state \in {"AddingItems", "ArrangingPayment", "Draft"} ->
              ~o.orderPlacedAt /\ covered < o.totalWithTax
         [] o.state = "ArrangingAdditionalPayment" ->
              o.orderPlacedAt /\ covered < o.totalWithTax /\ o.payments # <<>>
         [] o.state = "PaymentAuthorized" ->
              covered >= o.totalWithTax /\ settled < o.totalWithTax
         [] o.state \in {"PaymentSettled", "Shipped"} ->
              o.orderPlacedAt /\ settled >= o.totalWithTax
         [] o.state = "Cancelled" -> TRUE

InitOrders ==
    {o \in [state : OrderStates, orderPlacedAt : BOOLEAN,
            payments : {<<>>} \cup {<<p>> : p \in Payments},
            totalWithTax : OrderTotals] : ConsistentOrder(o)}

FreshOrder ==
    [state |-> "AddingItems", orderPlacedAt |-> FALSE, payments |-> <<>>, totalWithTax |-> 1000]

NoCall(os) ==
    [op |-> "none", paymentMethodId |-> "", orderId |-> "", status |-> "",
     autoCapture |-> FALSE, orderNumber |-> "", found |-> FALSE, before |-> os,
     reads |-> <<>>, calls |-> <<>>, result |-> "", input |-> << >>]

\* the workers that handle webhook notifications
Workers == {"w1", "w2"}

\* a worker that is handling no notification
Idle ==
    [pc |-> "idle", paymentMethodId |-> "", orderId |-> "", status |-> "",
     order |-> NoOrder, paymentState |-> "", paymentId |-> 0, result |-> ""]

\* no promotion stored, nothing cached, no call in progress
Quiet ==
    /\ promotions = <<>>
    /\ activePromotions = <<>>
    /\ runs = [w \in Workers |-> Idle]

Init ==
    /\ \E o \in InitOrders : orders = [T1 |-> o, T2 |-> FreshOrder]
    /\ last = NoCall(orders)
    /\ Quiet

\* how the collaborators answer during one call.  A call ends at the first request
\* that is refused, so at most one refusal is seen per call.
AllAccepted == [fetch |-> TRUE, transition |-> TRUE, attach |-> TRUE, settle |-> TRUE]

StoreAnswers ==
    {AllAccepted,
     [AllAccepted EXCEPT !.fetch = FALSE], [AllAccepted EXCEPT !.transition = FALSE],
     [AllAccepted EXCEPT !.attach = FALSE], [AllAccepted EXCEPT !.settle = FALSE]}

\* the Mollie orders whose notifications arrive
NotifiedOrderIds == {"ord_A", "ord_B", "ord_X"}

\* a webhook notification {paymentMethodId, orderId} arrives while the provider
\* reports `status` for that order
Reconcile(paymentMethodId, orderId, status, env) ==
    \E h \in {handleMollieStatusUpdate(orders, paymentMethodId, orderId, status, env)} :
    LET code == MollieOrders[orderId].orderNumber
    IN /\ code \in DOMAIN orders => Len(orders[code].payments) < MaxPayments
       /\ orders' = h.orders
       /\ last' = [op |-> "handleMollieStatusUpdate",
                   paymentMethodId |-> paymentMethodId, orderId |-> orderId,
                   status |-> status,
                   autoCapture |-> IF paymentMethodId \in DOMAIN PaymentMethods
                                   THEN PaymentMethods[paymentMethodId].autoCapture
                                   ELSE FALSE,
                   orderNumber |-> code,
                   found |-> Len(h.reads) = 3 /\ code \in DOMAIN orders,
                   before |-> orders,
                   reads |-> h.reads, calls |-> h.calls, result |-> h.result,
                   input |-> << >>]
       /\ UNCHANGED others

Next ==
    \E paymentMethodId \in PaymentMethodIds, orderId \in NotifiedOrderIds,
       status \in MollieStatuses, env \in StoreAnswers :
        Reconcile(paymentMethodId, orderId, status, env)

Spec == Init /\ [][Next]_vars

----------------------------------------------------------------------------
(* MollieService.createPaymentIntent *)

\* Object.values(MollieClientMethod), as far as the inputs below tell them apart
allowedMethods == {"ideal", "creditcard"}

\* transaction id of a Payment added without a Mollie order (mollieMetadata.id undefined)
NoTransactionId == "none"

\* toAmount(value, currency): cents as the provider's decimal amount
toAmount(cents) == [units |-> cents \div 100, hundredths |-> cents % 100]

\* the errors createPaymentIntent returns as values
IntentErrors == {"InvalidInputError", "PaymentIntentError"}

\* the errors createPaymentIntent throws
IntentThrown ==
    {"EntityNotFoundError", "StateTransitionError", "PaymentAttachError",
     "ProviderCreateError", "NoCheckoutUrlError"}

\* getPaymentMethod(ctx, paymentMethodCode): the method with that code, or the first
\* Mollie method when no code is given; "" when there is none
getPaymentMethod(paymentMethodCode) ==
    IF paymentMethodCode = "none" THEN "pm_manual"
    ELSE LET ids == {id \in DOMAIN PaymentMethods : PaymentMethods[id].code = paymentMethodCode}
         IN IF ids = {} THEN "" ELSE CHOOSE id \in ids : TRUE

\* MollieService.getOrder: the order of input.orderId (assertFound throws when there
\* is none), or the session's active order, or a PaymentIntentError value
getOrder(os, input) ==
    IF input.orderId # "none"
    THEN IF input.orderId \in DOMAIN os THEN [code |-> input.orderId, error |-> ""]
         ELSE [code |-> "", error |-> "EntityNotFoundError"]
    ELSE IF input.activeOrder \in DOMAIN os THEN [code |-> input.activeOrder, error |-> ""]
    ELSE [code |-> "", error |-> "PaymentIntentError"]

\* MollieService.canTransitionTo: a dry run of the transition on a copy of the order
canTransitionTo(o, state, accept) == accept /\ CanTransition(o.state, state)

\* faulty variant: every Payment counts double when the amount to pay is computed
amountToPay_Double(o) ==
    o.totalWithTax - 2 * totalCoveredByPayments(o, {"Authorized", "Settled"})

\* order.totalWithTax - totalCoveredByPayments(order)
amountToPay(o) == o.totalWithTax - totalCoveredByPayments(o, {"Authorized", "Settled"})

\* what one call of createPaymentIntent does
Intended(os, code, o, calls, result) ==
    [orders |-> IF code \in DOMAIN os THEN [os EXCEPT ![code] = o] ELSE os,
     code |-> code, calls |-> calls, result |-> result]

\* faulty variant: the order is moved to ArrangingPayment before the provider is asked
createMollieOrder_Transitions(os, code, o, pre, input) ==
    LET t == transitionToState(o, "ArrangingPayment", TRUE)
        c1 == <<Call("transitionToState", "ArrangingPayment", 0, 0, t.ok),
                Call("orders.create", "", amountToPay(o), 0, input.create)>>
    IN Intended(os, code, t.order, pre \o c1,
                IF ~input.create THEN "ProviderCreateError"
                ELSE IF ~input.checkoutUrl THEN "NoCheckoutUrlError" ELSE "Url")

\* mollieClient.orders.create(orderInput) for the amount to pay, then the checkout url
createMollieOrder(os, code, o, pre, input) ==
    LET c1 == <<Call("orders.create", "", amountToCents(toAmount(amountToPay(o))), 0,
                     input.create)>>
    IN Intended(os, code, o, pre \o c1,
                IF ~input.create THEN "ProviderCreateError"
                ELSE IF ~input.checkoutUrl THEN "NoCheckoutUrlError" ELSE "Url")

\* amountToPay === 0: addPayment(adminCtx, order, amountToPay, ..., 'Settled')
settleWithoutMollie(os, code, o, pre, input) ==
    LET r == addPayment(o, amountToPay(o), NoTransactionId, "Settled", input)
    IN Intended(os, code, r.order, pre \o r.calls, IF r.error = "" THEN "Url" ELSE r.error)

\* MollieService.createPaymentIntent
createPaymentIntent(os, input) ==
    IF input.molliePaymentMethodCode # "none"
          /\ input.molliePaymentMethodCode \notin allowedMethods
    THEN Intended(os, "", NoOrder, <<>>, "InvalidInputError")
    ELSE LET found == getOrder(os, input)
             pm == getPaymentMethod(input.paymentMethodCode)
         IN
    IF found.error # "" THEN Intended(os, "", NoOrder, <<>>, found.error)
    ELSE IF pm = "" THEN Intended(os, found.code, os[found.code], <<>>, "PaymentIntentError")
    ELSE LET code == found.code
             order == os[code]
             paymentMethod == PaymentMethods[pm]
             dry == IF NeedsArrangingPayment(order)
                    THEN <<Call("canTransitionTo", "ArrangingPayment", 0, 0,
                                canTransitionTo(order, "ArrangingPayment",
                                                input.canTransition))>>
                    ELSE <<>>
         IN
    IF ~input.eligible THEN Intended(os, code, order, <<>>, "InvalidInputError")
    ELSE IF dry # <<>> /\ ~dry[1].ok THEN Intended(os, code, order, dry, "PaymentIntentError")
    ELSE IF input.customer \in {"none", "noFirstName"}
    THEN Intended(os, code, order, dry, "PaymentIntentError")
    ELSE IF input.customer = "noLastName"
    THEN Intended(os, code, order, dry, "PaymentIntentError")
    ELSE IF ~input.redirectUrl /\ ~paymentMethod.redirectUrl
    THEN Intended(os, code, order, dry, "PaymentIntentError")
    ELSE IF ~paymentMethod.apiKey THEN Intended(os, code, order, dry, "PaymentIntentError")
    ELSE IF ~input.address THEN Intended(os, code, order, dry, "InvalidInputError")
    ELSE IF amountToPay(order) = 0 THEN settleWithoutMollie(os, code, order, dry, input)
    ELSE createMollieOrder(os, code, order, dry, input)

\* an input that passes every check, and the answers of the collaborators to it
ValidIntent ==
    [molliePaymentMethodCode |-> "ideal", orderId |-> "none", activeOrder |-> "T1",
     paymentMethodCode |-> "mollie-manual", eligible |-> TRUE, canTransition |-> TRUE,
     customer |-> "full", redirectUrl |-> TRUE, address |-> TRUE,
     create |-> TRUE, checkoutUrl |-> TRUE, transition |-> TRUE, attach |-> TRUE,
     settle |-> TRUE, fetch |-> TRUE]

\* the inputs of createPaymentIntent: the input that passes, and those that differ
\* from it in what one of the checks looks at
IntentInputs ==
    {ValidIntent}
    \cup {[ValidIntent EXCEPT !.molliePaymentMethodCode = m] : m \in {"none", "bogus"}}
    \cup {[ValidIntent EXCEPT !.orderId = c] : c \in {"T1", "T2", UnknownOrderCode}}
    \cup {[ValidIntent EXCEPT !.activeOrder = "none"]}
    \cup {[ValidIntent EXCEPT !.paymentMethodCode = c] :
             c \in {"none", "mollie-auto", "mollie-nokey", "unknown"}}
    \cup {[ValidIntent EXCEPT !.paymentMethodCode = "mollie-auto", !.redirectUrl = FALSE],
          [ValidIntent EXCEPT !.redirectUrl = FALSE]}
    \cup {[ValidIntent EXCEPT !.customer = c] : c \in {"none", "noFirstName", "noLastName"}}
    \cup {[ValidIntent EXCEPT !.eligible = FALSE], [ValidIntent EXCEPT !.canTransition = FALSE],
          [ValidIntent EXCEPT !.address = FALSE], [ValidIntent EXCEPT !.create = FALSE],
          [ValidIntent EXCEPT !.checkoutUrl = FALSE], [ValidIntent EXCEPT !.transition = FALSE],
          [ValidIntent EXCEPT !.attach = FALSE]}

\* orders with nothing to pay (a total of 0) that have not been paid for yet
FreeOrders ==
    [state : {"AddingItems", "ArrangingPayment", "Draft"}, orderPlacedAt : {FALSE},
     payments : {<<>>}, totalWithTax : {0}]

InitIntent ==
    /\ \E o \in InitOrders \cup FreeOrders : orders = [T1 |-> o, T2 |-> FreshOrder]
    /\ last = NoCall(orders)
    /\ Quiet

CreatePaymentIntent(input) ==
    \E h \in {createPaymentIntent(orders, input)} :
       /\ h.code \in DOMAIN orders => Len(orders[h.code].payments) < MaxPayments
       /\ orders' = h.orders
       /\ last' = [op |-> "createPaymentIntent",
                   paymentMethodId |-> getPaymentMethod(input.paymentMethodCode),
                   orderId |-> "", status |-> "", autoCapture |-> FALSE,
                   orderNumber |-> h.code, found |-> h.code \in DOMAIN orders,
                   before |-> orders, reads |-> <<>>, calls |-> h.calls,
                   result |-> h.result, input |-> input]
       /\ UNCHANGED others

NextIntent == \E input \in IntentInputs : CreatePaymentIntent(input)

SpecIntent == InitIntent /\ [][NextIntent]_vars

----------------------------------------------------------------------------
(* PromotionService *)

\* the most promotions that are stored
MaxPromotions == 2

\* configService.promotionConditions / promotionActions: code -> args (name -> type)
availableConditions == [minimum_order_amount |-> [amount |-> "money"]]

availableActions == [order_percentage_discount |-> [discount |-> "percentage"]]

UnknownOperationCode == "no_such_operation"

\* faulty variant: a code that no available operation has is taken as it comes
getAdjustmentOperationByCode_AnyCode(type, code) ==
    LET available == IF type = "condition" THEN availableConditions ELSE availableActions
    IN [found |-> TRUE, description |-> "description of " \o code,
        args |-> IF code \in DOMAIN available THEN available[code]
                 ELSE [amount |-> "string", discount |-> "string"]]

\* getAdjustmentOperationByCode: the operation with the code, if there is one
getAdjustmentOperationByCode(type, code) ==
    LET available == IF type = "condition" THEN availableConditions ELSE availableActions
    IN IF code \in DOMAIN available
       THEN [found |-> TRUE, description |-> "description of " \o code,
             args |-> available[code]]
       ELSE [found |-> FALSE, description |-> "", args |-> << >>]

\* parseOperationArgs: the input with the description and the argument types of the
\* operation it names; ok = FALSE when getAdjustmentOperationByCode throws
parseOperationArgs(type, input) ==
    LET match == getAdjustmentOperationByCode(type, input.code)
    IN [ok |-> match.found,
        operation |->
            [code |-> input.code, description |-> match.description,
             args |-> [i \in DOMAIN input.arguments |->
                         [name |-> input.arguments[i].name,
                          type |-> IF match.found THEN match.args[input.arguments[i].name]
                                   ELSE "",
                          value |-> input.arguments[i].value]]]]

\* input.conditions.map(c => this.parseOperationArgs(type, c))
parseOperations(type, inputs) ==
    LET parsed == [i \in DOMAIN inputs |-> parseOperationArgs(type, inputs[i])]
    IN [ok |-> \A i \in DOMAIN parsed : parsed[i].ok,
        operations |-> [i \in DOMAIN parsed |-> parsed[i].operation]]

\* faulty variant: the cache is filled with every stored promotion
updatePromotions_All(store) == store

\* updatePromotions: find({ where: { enabled: true } })
updatePromotions(store) == SelectSeq(store, LAMBDA promotion : promotion.enabled)

\* what a call of PromotionService leaves behind and returns
Promoted(store, cache, result, returned) ==
    [promotions |-> store, activePromotions |-> cache, result |-> result,
     returned |-> returned]

\* PromotionService.getActivePromotions
getActivePromotions(store, cache) ==
    LET refreshed == IF Len(cache) = 0 THEN updatePromotions(store) ELSE cache
    IN Promoted(store, refreshed, "Promotions", refreshed)

\* PromotionService.createPromotion
createPromotion(store, cache, input) ==
    LET conditions == parseOperations("condition", input.conditions)
        actions == parseOperations("action", input.actions)
    IN IF ~conditions.ok \/ ~actions.ok
       THEN Promoted(store, cache, "OperationNotFoundError", <<>>)
       ELSE LET adjustmentSource ==
                    [id |-> Len(store) + 1, name |-> input.name, enabled |-> input.enabled,
                     conditions |-> conditions.operations, actions |-> actions.operations]
                saved == Append(store, adjustmentSource)
            IN Promoted(saved, updatePromotions(saved), "Promotion", <<adjustmentSource>>)

\* patchEntity(entity, input): a field the input leaves out (<<>>) keeps its value
patchEntity(entity, input) ==
    [entity EXCEPT !.name = IF Len(input.name) = 0 THEN @ ELSE input.name[1],
                   !.enabled = IF Len(input.enabled) = 0 THEN @ ELSE input.enabled[1]]

\* PromotionService.updatePromotion
updatePromotion(store, cache, input) ==
    IF input.id \notin DOMAIN store
    THEN Promoted(store, cache, "EntityNotFoundError", <<>>)
    ELSE LET patched == patchEntity(store[input.id], input)
             conditions == IF Len(input.conditions) = 0
                           THEN [ok |-> TRUE, operations |-> patched.conditions]
                           ELSE parseOperations("condition", input.conditions[1])
             actions == IF Len(input.actions) = 0
                        THEN [ok |-> TRUE, operations |-> patched.actions]
                        ELSE parseOperations("action", input.actions[1])
         IN IF ~conditions.ok \/ ~actions.ok
            THEN Promoted(store, cache, "OperationNotFoundError", <<>>)
            ELSE LET updatedAdjustmentSource ==
                         [patched EXCEPT !.conditions = conditions.operations,
                                         !.actions = actions.operations]
                     saved == [store EXCEPT ![input.id] = updatedAdjustmentSource]
                 IN Promoted(saved, updatePromotions(saved), "Promotion",
                             <<updatedAdjustmentSource>>)

\* the operations the API is given
ConditionInputs ==
    {<<[code |-> c, arguments |-> <<[name |-> "amount", value |-> "100"]>>]>> :
        c \in {"minimum_order_amount", UnknownOperationCode}}

ActionInputs ==
    {<<[code |-> c, arguments |-> <<[name |-> "discount", value |-> "10"]>>]>> :
        c \in {"order_percentage_discount", UnknownOperationCode}}

PromotionNames == {"summer", "winter"}

CreatePromotionInputs ==
    [name : PromotionNames, enabled : BOOLEAN, conditions : ConditionInputs,
     actions : ActionInputs]

UpdatePromotionInputs ==
    [id : 1..(MaxPromotions + 1),
     name : {<<>>, <<"winter">>},
     enabled : {<<>>, <<TRUE>>, <<FALSE>>},
     conditions : {<<>>} \cup {<<c>> : c \in ConditionInputs},
     actions : {<<>>, <<<<[code |-> UnknownOperationCode, arguments |-> <<>>]>>>>}]

\* the promotions stored when the service is constructed
StoredPromotions ==
    {<<>>} \cup
    {<<[id |-> 1, name |-> "summer", enabled |-> e,
        conditions |-> parseOperations("condition", c).operations,
        actions |-> parseOperations("action", a).operations]>> :
        e \in BOOLEAN,
        c \in {<<[code |-> "minimum_order_amount",
                  arguments |-> <<[name |-> "amount", value |-> "100"]>>]>>},
        a \in {<<[code |-> "order_percentage_discount",
                  arguments |-> <<[name |-> "discount", value |-> "10"]>>]>>}}

InitPromotions ==
    /\ orders = [T1 |-> FreshOrder, T2 |-> FreshOrder]
    /\ last = NoCall(orders)
    /\ promotions \in StoredPromotions
    /\ activePromotions = <<>>
    /\ runs = [w \in Workers |-> Idle]

\* a call of PromotionService that runs from start to end with no other call between
PromotionCall(op, input, h) ==
    /\ promotions' = h.promotions
    /\ activePromotions' = h.activePromotions
    /\ last' = [op |-> op, input |-> input, before |-> promotions,
                cached |-> activePromotions, result |-> h.result, returned |-> h.returned]
    /\ UNCHANGED <<orders, runs>>

GetActivePromotions ==
    PromotionCall("getActivePromotions", << >>,
                  getActivePromotions(promotions, activePromotions))

CreatePromotion(input) ==
    /\ Len(promotions) < MaxPromotions
    /\ PromotionCall("createPromotion", input,
                     createPromotion(promotions, activePromotions, input))

UpdatePromotion(input) ==
    PromotionCall("updatePromotion", input,
                  updatePromotion(promotions, activePromotions, input))

NextPromotions ==
    \/ GetActivePromotions
    \/ \E input \in CreatePromotionInputs : CreatePromotion(input)
    \/ \E input \in UpdatePromotionInputs : UpdatePromotion(input)

SpecPromotions == InitPromotions /\ [][NextPromotions]_vars

----------------------------------------------------------------------------
(* createPromotion and updatePromotion, call by call in parallel: a call runs from *)
(* one await to the next, and each database call is atomic                         *)

\* a worker that is in no call of PromotionService
NoPromotionCall ==
    [pc |-> "idle", op |-> "", input |-> << >>,
     entity |-> [id |-> 0, name |-> "", enabled |-> FALSE, conditions |-> <<>>,
                 actions |-> <<>>],
     found |-> <<>>, result |-> ""]

\* worker w moves on in its call
Proceed(w, locals) ==
    /\ runs' = [runs EXCEPT ![w] = locals]
    /\ UNCHANGED <<orders, last>>

Completed(locals, result) == [locals EXCEPT !.pc = "done", !.result = result]

\* createPromotion, lines 92-98: the entity is built from the parsed input
StartCreate(w, input) ==
    /\ runs[w].pc = "idle"
    /\ LET conditions == parseOperations("condition", input.conditions)
           actions == parseOperations("action", input.actions)
           locals == [NoPromotionCall EXCEPT !.op = "createPromotion", !.input = input]
       IN Proceed(w, IF ~conditions.ok \/ ~actions.ok
                     THEN Completed(locals, "OperationNotFoundError")
                     ELSE [locals EXCEPT
                             !.pc = "save",
                             !.entity = [id |-> 0, name |-> input.name,
                                         enabled |-> input.enabled,
                                         conditions |-> conditions.operations,
                                         actions |-> actions.operations]])
    /\ UNCHANGED <<promotions, activePromotions>>

\* updatePromotion is called
StartUpdate(w, input) ==
    /\ runs[w].pc = "idle"
    /\ Proceed(w, [NoPromotionCall EXCEPT !.op = "updatePromotion", !.input = input,
                                          !.pc = "load"])
    /\ UNCHANGED <<promotions, activePromotions>>

\* updatePromotion, lines 105-120: findOne(input.id), then the entity that was
\* loaded is patched and the operations of the input are parsed
Load(w) ==
    /\ runs[w].pc = "load"
    /\ LET input == runs[w].input IN
       IF input.id \notin DOMAIN promotions
       THEN Proceed(w, Completed(runs[w], "EntityNotFoundError"))
       ELSE LET patched == patchEntity(promotions[input.id], input)
                conditions == IF Len(input.conditions) = 0
                              THEN [ok |-> TRUE, operations |-> patched.conditions]
                              ELSE parseOperations("condition", input.conditions[1])
                actions == IF Len(input.actions) = 0
                           THEN [ok |-> TRUE, operations |-> patched.actions]
                           ELSE parseOperations("action", input.actions[1])
            IN Proceed(w, IF ~conditions.ok \/ ~actions.ok
                          THEN Completed(runs[w], "OperationNotFoundError")
                          ELSE [runs[w] EXCEPT
                                  !.pc = "save",
                                  !.entity = [patched EXCEPT
                                                !.conditions = conditions.operations,
                                                !.actions = actions.operations]])
    /\ UNCHANGED <<promotions, activePromotions>>

\* connection.manager.save(entity): a new row for an entity without id, else the row
\* of the entity is overwritten
Save(w) ==
    /\ runs[w].pc = "save"
    /\ IF runs[w].entity.id = 0
       THEN /\ Len(promotions) < MaxPromotions
            /\ LET saved == [runs[w].entity EXCEPT !.id = Len(promotions) + 1]
               IN /\ promotions' = Append(promotions, saved)
                  /\ Proceed(w, [runs[w] EXCEPT !.pc = "find", !.entity = saved])
       ELSE /\ promotions' = [promotions EXCEPT ![runs[w].entity.id] = runs[w].entity]
            /\ Proceed(w, [runs[w] EXCEPT !.pc = "find"])
    /\ UNCHANGED activePromotions

\* updatePromotions, lines 165-167: the database answers find({where: {enabled: true}})
Refresh(w) ==
    /\ runs[w].pc = "find"
    /\ Proceed(w, [runs[w] EXCEPT !.pc = "assign", !.found = updatePromotions(promotions)])
    /\ UNCHANGED <<promotions, activePromotions>>

\* updatePromotions, line 165: the call resumes and assigns what was found to the
\* cache; then assertFound(findOne(id)) and the call returns
Assign(w) ==
    /\ runs[w].pc = "assign"
    /\ activePromotions' = runs[w].found
    /\ Proceed(w, Completed(runs[w], "Promotion"))
    /\ UNCHANGED promotions

\* the inputs of the calls that run in parallel
ParallelCreateInputs ==
    {input \in CreatePromotionInputs :
        input.name = "winter" /\ input.conditions[1].code # UnknownOperationCode}

ParallelUpdateInputs ==
    {input \in UpdatePromotionInputs :
        input.id <= MaxPromotions /\ input.conditions = <<>>}

InitPromotionsParallel ==
    /\ orders = [T1 |-> FreshOrder, T2 |-> FreshOrder]
    /\ last = NoCall(orders)
    /\ promotions \in StoredPromotions
    /\ activePromotions = <<>>
    /\ runs = [w \in Workers |-> NoPromotionCall]

NextPromotionsParallel ==
    \E w \in Workers :
       \/ \E input \in ParallelCreateInputs : StartCreate(w, input)
       \/ \E input \in ParallelUpdateInputs : StartUpdate(w, input)
       \/ Load(w)
       \/ Save(w)
       \/ Refresh(w)
       \/ Assign(w)

SpecPromotionsParallel == InitPromotionsParallel /\ [][NextPromotionsParallel]_vars

----------------------------------------------------------------------------
(* handleMollieStatusUpdate, call by call in parallel: a worker runs the handler *)
(* from one await to the next, and the requests to the Order Store are atomic    *)

\* the order a worker's notification is about
CodeOf(w) == MollieOrders[runs[w].orderId].orderNumber

\* worker w moves on: its locals change as given
Goto(w, locals) ==
    /\ runs' = [runs EXCEPT ![w] = locals]
    /\ UNCHANGED <<last, promotions, activePromotions>>

Done(locals, result) == [locals EXCEPT !.pc = "done", !.result = result]

\* faulty variant: the Order Store applies the request to every order
WithOrder_Every(w, o) == [code \in DOMAIN orders |-> o]

\* the orders once the Order Store has applied a request of w: it names the order
\* by order.id
WithOrder(w, o) == [orders EXCEPT ![CodeOf(w)] = o]

\* lines 249-260: the payment method and the Mollie order are looked up
Start(w, paymentMethodId, orderId, status) ==
    /\ runs[w].pc = "idle"
    /\ LET locals == [Idle EXCEPT !.paymentMethodId = paymentMethodId,
                                  !.orderId = orderId, !.status = status]
       IN Goto(w, IF paymentMethodId \notin DOMAIN PaymentMethods
                  THEN Done(locals, "NoPaymentMethod")
                  ELSE IF ~PaymentMethods[paymentMethodId].apiKey
                  THEN Done(locals, "NoApiKeyError")
                  ELSE [locals EXCEPT !.pc = "find"])
    /\ UNCHANGED orders

\* lines 276-347: the order is read, and the gates and the rows are decided on
\* what was read
Find(w) ==
    /\ runs[w].pc = "find"
    /\ LET me == runs[w]
           autoCapture == PaymentMethods[me.paymentMethodId].autoCapture
       IN IF CodeOf(w) \notin DOMAIN orders
          THEN Goto(w, Done(me, "OrderNotFoundError"))
          ELSE LET order == orders[CodeOf(w)]
                   read == [me EXCEPT !.order = order]
               IN
          IF me.status \notin mollieStatesThatRequireAction
          THEN Goto(w, Done(read, "IgnoredStatus"))
          ELSE IF IsPaidTwice(order, me.orderId)
          THEN Goto(w, Done(read, "PaidTwice"))
          ELSE IF order.state \notin vendureStatesThatRequireAction
          THEN Goto(w, Done(read, "IgnoredState"))
          ELSE IF me.status = "paid" \/ IsAuthorizedRow(order, me.status)
          THEN Goto(w, [read EXCEPT
                          !.paymentState = IF me.status = "paid" THEN "Settled"
                                           ELSE "Authorized",
                          !.pc = IF NeedsArrangingPayment(order) THEN "transition"
                                 ELSE "attach"])
          ELSE IF IsCompletedRow(order, me.status, autoCapture)
          THEN Goto(w, [read EXCEPT !.pc = "hydrate"])
          ELSE IF IsAutoCaptureRow(me.status, autoCapture)
          THEN Goto(w, Done(read, "AutoCaptureNoop"))
          ELSE Goto(w, Done(read, "UnhandledTransitionError"))
    /\ UNCHANGED orders

\* addPayment, lines 361-373: orderService.transitionToState
Transition(w) ==
    /\ runs[w].pc = "transition"
    /\ LET t == transitionToState(orders[CodeOf(w)], "ArrangingPayment", TRUE)
       IN /\ orders' = WithOrder(w, t.order)
          /\ Goto(w, IF t.ok THEN [runs[w] EXCEPT !.pc = "attach"]
                     ELSE Done(runs[w], "StateTransitionError"))

\* addPayment, lines 374-391: orderService.addPaymentToOrder; the handler goes on
\* with the order that is returned
Attach(w) ==
    /\ runs[w].pc = "attach"
    /\ Len(orders[CodeOf(w)].payments) < MaxPayments
    /\ LET me == runs[w]
           a == addPaymentToOrder(orders[CodeOf(w)], me.orderId,
                                  amountToCents(MollieOrders[me.orderId]),
                                  me.paymentState, TRUE)
           added == [me EXCEPT !.order = a.order]
       IN /\ orders' = WithOrder(w, a.order)
          /\ Goto(w, IF ~a.ok THEN Done(me, "PaymentAttachError")
                     ELSE IF me.status = "paid" THEN Done(added, "Paid")
                     ELSE IF PaymentMethods[me.paymentMethodId].autoCapture
                     THEN [added EXCEPT !.pc = "hydrate"]
                     ELSE Done(added, "Authorized"))

\* settleExistingPayment, lines 398-404: entityHydrator.hydrate and the search for
\* the Payment.  The hydrator is not part of the service: it either keeps the
\* payments the order object already has or loads them again.
Hydrate(w) ==
    /\ runs[w].pc = "hydrate"
    /\ \E payments \in {runs[w].order.payments, orders[CodeOf(w)].payments} :
         LET paymentId == FindPaymentId(payments, runs[w].orderId)
         IN Goto(w, IF paymentId = 0 THEN Done(runs[w], "PaymentNotFoundError")
                    ELSE [runs[w] EXCEPT !.pc = "settle", !.paymentId = paymentId])
    /\ UNCHANGED orders

\* settleExistingPayment, lines 405-412: orderService.settlePayment
Settle(w) ==
    /\ runs[w].pc = "settle"
    /\ LET s == settlePayment(orders[CodeOf(w)], runs[w].paymentId, TRUE)
       IN /\ orders' = WithOrder(w, s.order)
          /\ Goto(w, Done(runs[w], IF ~s.ok THEN "SettlementError"
                                   ELSE IF runs[w].status = "completed" THEN "Completed"
                                   ELSE "AutoCaptured"))

\* the notifications the two workers are given: the same one, or one each for
\* two different orders
NotifiedTo ==
    [w1 |-> {"ord_A", "ord_X"}, w2 |-> {"ord_A", "ord_C"}]

ParallelStatuses == {"authorized", "paid", "completed"}

\* the orders the notifications find
ParallelOrders ==
    {o \in InitOrders : o.payments = <<>> \/ o.payments[1].transactionId # "ord_B"}

InitParallel ==
    /\ \E o1 \in ParallelOrders,
          o2 \in {FreshOrder, [FreshOrder EXCEPT !.state = "ArrangingPayment"]} :
            orders = [T1 |-> o1, T2 |-> o2]
    /\ last = NoCall(orders)
    /\ Quiet

NextParallel ==
    \E w \in Workers :
       \/ \E paymentMethodId \in {"pm_manual", "pm_auto"}, orderId \in NotifiedTo[w],
             status \in ParallelStatuses : Start(w, paymentMethodId, orderId, status)
       \/ Find(w)
       \/ Transition(w)
       \/ Attach(w)
       \/ Hydrate(w)
       \/ Settle(w)

SpecParallel == InitParallel /\ [][NextParallel]_vars

----------------------------------------------------------------------------
(* The notifications of one Mollie order, handled one after the other *)

\* the Mollie order of the flow: ord_A, for order T1
FlowOrderId == "ord_A"

FlowStatuses == {"authorized", "completed", "paid"}

\* the Order Store accepts every request, or rejects the settlement
FlowAnswers == {AllAccepted, [AllAccepted EXCEPT !.settle = FALSE]}

\* a checkout in progress: AddingItems, no Payments
InitFlow ==
    /\ \E total \in OrderTotals :
          orders = [T1 |-> [FreshOrder EXCEPT !.totalWithTax = total], T2 |-> FreshOrder]
    /\ last = [op |-> "flow", before |-> orders, log |-> <<>>]
    /\ Quiet

\* one more notification of the Mollie order is handled; the log keeps what was
\* notified, whether the Order Store accepted every request, and the outcome
Notify(paymentMethodId, status, env) ==
    \E h \in {handleMollieStatusUpdate(orders, paymentMethodId, FlowOrderId, status, env)} :
       /\ Len(last.log) < MaxNotifications
       /\ Len(orders["T1"].payments) < MaxPayments
       /\ orders' = h.orders
       /\ last' = [last EXCEPT !.log =
                      Append(@, [paymentMethodId |-> paymentMethodId, status |-> status,
                                 accepted |-> \A i \in DOMAIN h.calls : h.calls[i].ok,
                                 result |-> h.result, orders |-> h.orders])]
       /\ UNCHANGED others

NextFlow ==
    \E paymentMethodId \in {"pm_manual", "pm_auto"}, status \in FlowStatuses,
       env \in FlowAnswers : Notify(paymentMethodId, status, env)

SpecFlow == InitFlow /\ [][NextFlow]_vars

----------------------------------------------------------------------------
(* Properties of handleMollieStatusUpdate *)

Reconciled == last.op = "handleMollieStatusUpdate"

\* the call found its order: Pre is that order before the call, Post after it
Found == Reconciled /\ last.found

Pre == last.before[last.orderNumber]

Post == orders[last.orderNumber]

\* the positions in the call's requests of the requests `op`
CallsOf(op) == {i \in DOMAIN last.calls : last.calls[i].op = op}

\* the call requested nothing of the Order Store and no order changed
NothingDone == last.calls = <<>> /\ orders = last.before

\* the order had a Payment with the notification's transaction id before the call
HadPaymentOfNotification ==
    \E i \in DOMAIN Pre.payments : Pre.payments[i].transactionId = last.orderId

\* the amount of the notification's Mollie order, in cents
NotifiedCents ==
    100 * MollieOrders[last.orderId].units + MollieOrders[last.orderId].hundredths

\* the call passed the status gate, the double-payment gate and the state gate
PassedGates ==
    /\ Found
    /\ last.status \in {"authorized", "paid", "completed"}
    /\ ~(Pre.orderPlacedAt /\ ~HadPaymentOfNotification)
    /\ Pre.state \in {"AddingItems", "ArrangingPayment", "ArrangingAdditionalPayment",
                      "PaymentAuthorized", "Draft"}

\* C1: after any sequence of handleMollieStatusUpdate calls an order holds at most
\* one Payment per transactionId.
C1_OnePaymentPerTransaction ==
    \A c \in OrderCodes : \A i, j \in DOMAIN orders[c].payments :
        orders[c].payments[i].transactionId = orders[c].payments[j].transactionId => i = j

\* C2: double-payment guard.  When the order has a placement timestamp and none of
\* its Payments has the notification's transaction id, a call with an actionable
\* status returns normally, requests nothing of the Order Store (no transition, no
\* Payment added or settled, no refund) and leaves the order as it was, in every
\* order state.
C2_DoublePaymentGuard ==
    ( /\ Found
      /\ last.status \in {"authorized", "paid", "completed"}
      /\ Pre.orderPlacedAt
      /\ ~HadPaymentOfNotification )
    => (last.result \notin Errors /\ NothingDone)

\* a placed order in a state the handler would otherwise act on got a paid
\* notification for a transaction it has no Payment of
C2_Witness ==
    /\ Found /\ last.status = "paid"
    /\ Pre.orderPlacedAt /\ ~HadPaymentOfNotification
    /\ Pre.state = "ArrangingAdditionalPayment"
    /\ last.result = "PaidTwice"

\* C3: status gate.  For every provider status outside {authorized, paid, completed}
\* and every order state the call requests nothing of the Order Store and no order
\* changes; when the order exists the call short-circuits at the gate.
C3_StatusGate ==
    (Reconciled /\ last.status \notin {"authorized", "paid", "completed"})
    => (NothingDone /\ (Found => last.result = "IgnoredStatus"))

\* an expired Mollie order was notified for an order that arranges its payment
C3_Witness ==
    /\ Found /\ last.status = "expired" /\ Pre.state = "ArrangingPayment"
    /\ last.result = "IgnoredStatus"

\* C4: state gate.  For every order state outside {AddingItems, ArrangingPayment,
\* ArrangingAdditionalPayment, PaymentAuthorized, Draft} and every provider status
\* the call returns normally, requests nothing of the Order Store and no order changes.
C4_StateGate ==
    ( /\ Found
      /\ Pre.state \notin {"AddingItems", "ArrangingPayment", "ArrangingAdditionalPayment",
                           "PaymentAuthorized", "Draft"} )
    => (last.result \notin Errors /\ NothingDone)

\* a settled order, which has the Payment of the notification, was notified as paid again
C4_Witness ==
    /\ Found /\ last.status = "paid" /\ Pre.state = "PaymentSettled"
    /\ HadPaymentOfNotification
    /\ last.result = "IgnoredState"

\* the Payment a call adds for its notification
NotifiedPayment(state) ==
    [id |-> Len(Pre.payments) + 1, transactionId |-> last.orderId,
     amount |-> NotifiedCents, state |-> state]

\* every request of the call was accepted by the Order Store
AllCallsAccepted == \A i \in DOMAIN last.calls : last.calls[i].ok

\* C5: status paid with the order in an eligible state, past the double-payment gate:
\* exactly one addPayment request, for status Settled and the provider's amount, and
\* no settleExistingPayment call; when the Order Store accepts the requests the order
\* gains exactly one Payment, Settled, of that amount (paid / ArrangingPayment /
\* 10.00 gives one Settled Payment of 1000), and none otherwise.
C5_PaidAddsSettledPayment ==
    (PassedGates /\ last.status = "paid")
    => /\ Cardinality(CallsOf("addPayment")) = 1
       /\ last.calls[1] = Call("addPayment", "Settled", NotifiedCents, 0, TRUE)
       /\ CallsOf("settleExistingPayment") = {} /\ CallsOf("settlePayment") = {}
       /\ Post.payments = IF AllCallsAccepted
                          THEN Append(Pre.payments, NotifiedPayment("Settled"))
                          ELSE Pre.payments

\* paid, ArrangingPayment, amount 1000: one Settled Payment of 1000 was created
C5_Witness ==
    /\ PassedGates /\ last.status = "paid" /\ Pre.state = "ArrangingPayment"
    /\ Pre.payments = <<>> /\ NotifiedCents = 1000
    /\ Len(Post.payments) = 1
    /\ Post.payments[1].state = "Settled" /\ Post.payments[1].amount = 1000

\* C6: status authorized, order in AddingItems, auto-capture not configured: the call
\* makes one addPayment request for status Authorized and no settlement call; the
\* order gains exactly one Payment, Authorized, when the Order Store accepts the
\* transition and the attach (no Payment when it rejects one of them).
C6_AuthorizedAddsAuthorizedPayment ==
    (PassedGates /\ last.status = "authorized" /\ Pre.state = "AddingItems"
       /\ ~last.autoCapture)
    => /\ Cardinality(CallsOf("addPayment")) = 1
       /\ last.calls[1] = Call("addPayment", "Authorized", NotifiedCents, 0, TRUE)
       /\ CallsOf("settleExistingPayment") = {} /\ CallsOf("settlePayment") = {}
       /\ Post.payments = IF AllCallsAccepted
                          THEN Append(Pre.payments, NotifiedPayment("Authorized"))
                          ELSE Pre.payments

\* authorized, AddingItems, no auto-capture: the one Payment is there, Authorized
C6_Witness ==
    /\ PassedGates /\ last.status = "authorized" /\ Pre.state = "AddingItems"
    /\ ~last.autoCapture /\ Pre.payments = <<>>
    /\ Len(Post.payments) = 1 /\ Post.payments[1].state = "Authorized"
    /\ last.result = "Authorized"

\* C7: status authorized, order in AddingItems, auto-capture configured: a settlement
\* is requested only after a Payment with status Authorized was created by this call
\* (and is requested once it was), and it is for that Payment, the one of the
\* notification's transaction id, never another Payment of the order.
C7_CaptureSettlesCreatedPayment ==
    (PassedGates /\ last.status = "authorized" /\ Pre.state = "AddingItems"
       /\ last.autoCapture)
    => /\ \A j \in CallsOf("settlePayment") :
            \E i \in CallsOf("addPaymentToOrder") :
                /\ i < j /\ last.calls[i].ok /\ last.calls[i].status = "Authorized"
                /\ last.calls[j].paymentId = last.calls[i].paymentId
                /\ Post.payments[last.calls[j].paymentId].transactionId = last.orderId
       /\ (\E i \in CallsOf("addPaymentToOrder") : last.calls[i].ok)
              => Cardinality(CallsOf("settlePayment")) = 1


\* the settlement requests of the call are for one Payment, the first Payment the
\* order had with the notification's transaction id
SettlesPaymentOfNotification ==
    /\ CallsOf("settleExistingPayment") # {}
    /\ Cardinality(CallsOf("settlePayment")) = 1
    /\ \A j \in CallsOf("settlePayment") :
          /\ last.calls[j].paymentId \in DOMAIN Pre.payments
          /\ Pre.payments[last.calls[j].paymentId].transactionId = last.orderId

\* C8 as stated: status completed with the order in PaymentAuthorized invokes
\* settleExistingPayment for the Payment of the notification's transaction id, also
\* with auto-capture; if the order has no such Payment the call fails with
\* PaymentNotFoundError and requests no settlement.
C8_CompletedSettlesOrNotFound ==
    (Found /\ last.status = "completed" /\ Pre.state = "PaymentAuthorized")
    => IF HadPaymentOfNotification
       THEN SettlesPaymentOfNotification
       ELSE last.result = "PaymentNotFoundError" /\ CallsOf("settlePayment") = {}

\* C8 amended: as C8, but when the order has no such Payment no settlement is
\* requested and the call fails with PaymentNotFoundError only if the order has no
\* placement timestamp; if it has one the call returns without error at the
\* double-payment gate, before settleExistingPayment.
C8_CompletedSettlesOrGuarded ==
    (Found /\ last.status = "completed" /\ Pre.state = "PaymentAuthorized")
    => IF HadPaymentOfNotification
       THEN SettlesPaymentOfNotification
       ELSE /\ CallsOf("settlePayment") = {}
            /\ orders = last.before
            /\ IF Pre.orderPlacedAt
               THEN last.result = "PaidTwice" /\ last.calls = <<>>
               ELSE last.result = "PaymentNotFoundError"

\* completed, with auto-capture, settled the Authorized Payment of the notification
C8_Witness ==
    /\ Found /\ last.status = "completed" /\ Pre.state = "PaymentAuthorized"
    /\ last.autoCapture /\ HadPaymentOfNotification
    /\ last.result = "Completed"
    /\ \E j \in CallsOf("settlePayment") :
          /\ Pre.payments[last.calls[j].paymentId].state = "Authorized"
          /\ Post.payments[last.calls[j].paymentId].state = "Settled"

\* completed for a placed order in PaymentAuthorized without a Payment of the
\* notification returned at the double-payment gate
C8_GuardedCase ==
    /\ Found /\ last.status = "completed" /\ Pre.state = "PaymentAuthorized"
    /\ ~HadPaymentOfNotification /\ Pre.orderPlacedAt /\ last.result = "PaidTwice"

\* the call matches none of the four rows that act or return
NoRowMatches ==
    /\ last.status # "paid"
    /\ ~(Pre.state = "AddingItems" /\ last.status = "authorized")
    /\ ~(Pre.state = "PaymentAuthorized" /\ last.status = "completed")
    /\ ~(last.autoCapture /\ last.status = "completed")

\* C9: every call that passes the three gates and matches none of the four rows
\* fails with UnhandledTransitionError, requests nothing of the Order Store and
\* changes no order.
C9_UnhandledTransition ==
    (PassedGates /\ NoRowMatches)
    => (last.result = "UnhandledTransitionError" /\ NothingDone)

\* completed for an order in AddingItems, without auto-capture, failed
C9_Witness ==
    /\ PassedGates /\ last.status = "completed" /\ Pre.state = "AddingItems"
    /\ ~last.autoCapture /\ Pre.payments = <<>>
    /\ last.result = "UnhandledTransitionError"

\* authorized for an order in an eligible state other than AddingItems failed
C9_AuthorizedElsewhere ==
    /\ PassedGates /\ last.status = "authorized"
    /\ Pre.state \in {"ArrangingPayment", "ArrangingAdditionalPayment", "PaymentAuthorized",
                      "Draft"}
    /\ last.result = "UnhandledTransitionError"

\* C10: with auto-capture, whenever a completed notification is treated as a no-op
\* the order already has a Settled Payment of the notification's transaction id.
C10_NoopOnlyAfterCapture ==
    (Found /\ last.autoCapture /\ last.status = "completed"
       /\ last.result = "AutoCaptureNoop")
    => \E i \in DOMAIN Post.payments :
          /\ Post.payments[i].transactionId = last.orderId
          /\ Post.payments[i].state = "Settled"


----------------------------------------------------------------------------
(* Properties of addPayment and settleExistingPayment inside a notification *)

\* the call invoked addPayment
AddPaymentInvoked == Found /\ CallsOf("addPayment") # {}

\* the Order Store accepted a transition requested by the call
TransitionAccepted ==
    \E i \in CallsOf("transitionToState") : last.calls[i].ok

\* the Order Store rejected a transition requested by the call
TransitionRejected ==
    \E i \in CallsOf("transitionToState") : ~last.calls[i].ok

\* C12: addPayment requests a transition to ArrangingPayment exactly when the order
\* is in neither ArrangingPayment nor ArrangingAdditionalPayment, and before it
\* records the Payment; if the transition is rejected the call fails with
\* StateTransitionError, no Payment is attached and nothing is settled afterwards.
C12_TransitionBeforePayment ==
    AddPaymentInvoked
    => /\ (CallsOf("transitionToState") # {})
             <=> (Pre.state \notin {"ArrangingPayment", "ArrangingAdditionalPayment"})
       /\ \A i \in CallsOf("transitionToState") :
             /\ last.calls[i].status = "ArrangingPayment"
             /\ \A j \in CallsOf("addPaymentToOrder") : i < j
       /\ TransitionRejected
             => /\ last.result = "StateTransitionError"
                /\ CallsOf("addPaymentToOrder") = {}
                /\ CallsOf("settleExistingPayment") = {} /\ CallsOf("settlePayment") = {}
                /\ Post.payments = Pre.payments

\* with auto-capture, the transition from AddingItems was rejected: the call failed
\* before any Payment or settlement
C12_Witness ==
    /\ AddPaymentInvoked /\ last.autoCapture /\ last.status = "authorized"
    /\ Pre.state = "AddingItems" /\ TransitionRejected
    /\ last.result = "StateTransitionError" /\ Post = Pre

\* an order that arranges an additional payment got its Payment without a transition
C12_NoTransitionCase ==
    /\ AddPaymentInvoked /\ Pre.state = "ArrangingAdditionalPayment"
    /\ CallsOf("transitionToState") = {}
    /\ Len(Post.payments) = Len(Pre.payments) + 1

\* C13: a call that fails partway does not leave the order mid-transition with no
\* Payment recorded: when the transition to ArrangingPayment succeeded and the
\* attach is rejected, the order is not left in ArrangingPayment without the Payment.
C13_NoTransitionWithoutPayment ==
    (AddPaymentInvoked /\ TransitionAccepted /\ last.result = "PaymentAttachError")
    => ~(Post.state = "ArrangingPayment" /\ Post.payments = Pre.payments)

\* C14: a paymentMethodId that resolves to no payment method makes the call return
\* normally after that one lookup: the Mollie order is not fetched, no order is
\* looked up, nothing is requested of the Order Store and no order changes.
C14_UnknownMethodSilent ==
    (Reconciled /\ last.paymentMethodId \notin {"pm_manual", "pm_auto", "pm_nokey"})
    => /\ last.result \notin Errors
       /\ last.reads = <<"paymentMethod">>
       /\ NothingDone

\* a paid notification with an unknown paymentMethodId for an order that would
\* otherwise get its Payment
C14_Witness ==
    /\ Reconciled /\ last.paymentMethodId = "pm_404" /\ last.status = "paid"
    /\ last.orderNumber = "T1" /\ orders["T1"].state = "ArrangingPayment"
    /\ last.result = "NoPaymentMethod"

\* the call got the Mollie order from the provider
Fetched ==
    /\ Reconciled
    /\ last.paymentMethodId \in {"pm_manual", "pm_auto"}
    /\ last.result # "ProviderFetchError"

\* C15: when no order has the Mollie order's orderNumber as its code the call fails
\* with OrderNotFoundError and changes nothing, for every provider status, also
\* those the status gate would ignore.
C15_OrderNotFound ==
    (Fetched /\ last.orderNumber \notin {"T1", "T2"})
    => (last.result = "OrderNotFoundError" /\ NothingDone)

\* an expired Mollie order of an unknown order number failed the call
C15_Witness ==
    /\ Fetched /\ last.orderNumber = "T404" /\ last.status = "expired"
    /\ last.result = "OrderNotFoundError"

\* C16: settleExistingPayment fails with SettlementError whenever settlePayment
\* returns a failure and returns normally only when the settlement succeeded; in
\* the auto-capture branch a failed settlement makes the call fail while the
\* Authorized Payment just created stays attached to the order.
C16_SettlementErrorKeepsPayment ==
    Found
    => /\ (\E j \in CallsOf("settlePayment") : ~last.calls[j].ok)
             => last.result = "SettlementError"
       /\ (CallsOf("settleExistingPayment") # {} /\ last.result \notin Errors)
             => \E j \in CallsOf("settlePayment") :
                   /\ last.calls[j].ok
                   /\ Post.payments[last.calls[j].paymentId].state = "Settled"
       /\ (last.status = "authorized" /\ Pre.state = "AddingItems" /\ last.autoCapture
             /\ last.result = "SettlementError")
             => Post.payments = Append(Pre.payments, NotifiedPayment("Authorized"))

\* auto-capture: the settlement failed, the call failed, the Authorized Payment is there
C16_Witness ==
    /\ Found /\ last.status = "authorized" /\ Pre.state = "AddingItems"
    /\ last.autoCapture /\ Pre.payments = <<>>
    /\ last.result = "SettlementError"
    /\ Len(Post.payments) = 1 /\ Post.payments[1].state = "Authorized"


----------------------------------------------------------------------------
(* Properties of createPaymentIntent *)

IntentCall == last.op = "createPaymentIntent"

\* the order the input names: input.orderId, or the active order of the session
IntentOrderCode ==
    IF last.input.orderId # "none" THEN last.input.orderId ELSE last.input.activeOrder

\* the checks of createPaymentIntent that the input of the call fails
NoOrderOfIntent == IntentOrderCode \notin {"T1", "T2"}

NotTransitionable ==
    /\ ~NoOrderOfIntent
    /\ last.before[IntentOrderCode].state \notin {"ArrangingPayment", "ArrangingAdditionalPayment"}
    /\ (~last.input.canTransition
          \/ last.before[IntentOrderCode].state \notin {"AddingItems", "Draft"})

IntentDefect ==
    \/ last.input.molliePaymentMethodCode = "bogus"
    \/ NoOrderOfIntent
    \/ last.input.paymentMethodCode = "unknown"
    \/ ~last.input.eligible
    \/ NotTransitionable
    \/ last.input.customer # "full"
    \/ (~last.input.redirectUrl /\ last.input.paymentMethodCode = "mollie-auto")
    \/ last.input.paymentMethodCode = "mollie-nokey"
    \/ ~last.input.address

\* the call added no Payment, created no order at the provider and changed no order
NothingIntended ==
    /\ CallsOf("addPayment") = {} /\ CallsOf("addPaymentToOrder") = {}
    /\ CallsOf("orders.create") = {}
    /\ orders = last.before

\* C17: every validation failure of createPaymentIntent (unknown mollie method code,
\* no active order or unknown order id, unknown payment method, ineligible method,
\* order not transitionable, missing first or last name, no redirect URL, missing
\* apiKey, incomplete address) is returned as InvalidInputError or PaymentIntentError,
\* never thrown, and no Payment is added and no external order created.
C17_ValidationErrorsReturned ==
    (IntentCall /\ IntentDefect)
    => (last.result \in {"InvalidInputError", "PaymentIntentError"} /\ NothingIntended)

\* what is left to pay on the order of the call
Outstanding ==
    Pre.totalWithTax - SumAmounts(Pre.payments, {"Authorized", "Settled"})

\* C18: on a validated order createPaymentIntent computes outstanding = total minus
\* the amount covered by the Payments.  Outstanding zero: one addPayment request,
\* Settled, amount 0, no order created at the provider, and the order gains exactly
\* that Payment (when the Order Store accepts the requests).  Outstanding nonzero:
\* exactly one order created at the provider, for the outstanding amount, no Payment
\* added and no transition requested, the order unchanged.
C18_OutstandingAmount ==
    (IntentCall /\ ~IntentDefect)
    => IF Outstanding = 0
       THEN /\ Cardinality(CallsOf("addPayment")) = 1
            /\ \A i \in CallsOf("addPayment") :
                  last.calls[i] = Call("addPayment", "Settled", 0, 0, TRUE)
            /\ CallsOf("orders.create") = {}
            /\ Post.payments =
                  IF AllCallsAccepted
                  THEN Append(Pre.payments,
                              [id |-> Len(Pre.payments) + 1, transactionId |-> "none",
                               amount |-> 0, state |-> "Settled"])
                  ELSE Pre.payments
       ELSE /\ Cardinality(CallsOf("orders.create")) = 1
            /\ \A i \in CallsOf("orders.create") : last.calls[i].amount = Outstanding
            /\ CallsOf("addPayment") = {} /\ CallsOf("addPaymentToOrder") = {}
            /\ CallsOf("transitionToState") = {}
            /\ orders = last.before

\* an order with a total of 0 in AddingItems was settled with one Payment of 0
C18_Witness ==
    /\ IntentCall /\ ~IntentDefect /\ Outstanding = 0
    /\ Pre.state = "AddingItems" /\ Pre.payments = <<>>
    /\ last.result = "Url"
    /\ Len(Post.payments) = 1
    /\ Post.payments[1].amount = 0 /\ Post.payments[1].state = "Settled"

\* a partly paid order got a Mollie order for the rest
C18_PartlyPaidCase ==
    /\ IntentCall /\ ~IntentDefect
    /\ Pre.totalWithTax = 1550 /\ Len(Pre.payments) = 1 /\ Pre.payments[1].amount = 1000
    /\ last.result = "Url"
    /\ \E i \in CallsOf("orders.create") : last.calls[i].amount = 550


----------------------------------------------------------------------------
(* Properties of PromotionService *)

\* the stored promotions with enabled = true
EnabledPromotions == {promotions[i] : i \in {j \in DOMAIN promotions : promotions[j].enabled}}

\* C20: with the calls of PromotionService executed one at a time, after any
\* sequence of createPromotion and updatePromotion calls, getActivePromotions returns
\* exactly the stored promotions with enabled = true, each once and with the values
\* last saved; and after a createPromotion or updatePromotion that completed the
\* cache holds exactly those.
C20_CacheCoherence ==
    /\ last.op = "getActivePromotions"
         => /\ {last.returned[i] : i \in DOMAIN last.returned} = EnabledPromotions
            /\ Len(last.returned) = Cardinality(EnabledPromotions)
    /\ (last.op \in {"createPromotion", "updatePromotion"} /\ last.result = "Promotion")
         => {activePromotions[i] : i \in DOMAIN activePromotions} = EnabledPromotions

\* getActivePromotions answered from a cache that earlier calls had filled, while a
\* created promotion is stored and one stored promotion is disabled
C20_Witness ==
    /\ last.op = "getActivePromotions"
    /\ Len(last.cached) > 0
    /\ Len(promotions) = MaxPromotions
    /\ \E i \in DOMAIN promotions : ~promotions[i].enabled
    /\ \E i \in DOMAIN promotions : promotions[i].enabled /\ promotions[i].name = "winter"

\* an updatePromotion that disabled a cached promotion took it out of the cache
C20_DisabledCase ==
    /\ last.op = "updatePromotion" /\ last.result = "Promotion"
    /\ last.input.enabled = <<FALSE>>
    /\ \E i \in DOMAIN last.cached : last.cached[i].id = last.input.id
    /\ \A i \in DOMAIN activePromotions : activePromotions[i].id # last.input.id


----------------------------------------------------------------------------
(* Properties of handleMollieStatusUpdate calls in parallel *)

AllDone == \A w \in Workers : runs[w].pc = "done"

\* the Payments of order o made for the Mollie order orderId
PaymentsOf(o, orderId) ==
    {i \in DOMAIN o.payments : o.payments[i].transactionId = orderId}

\* C11: with the requests to the Order Store atomic, any interleaving of two
\* handleMollieStatusUpdate calls for the same notification leaves at most one
\* Payment with that transactionId on the order.
C11_OnePaymentAfterRace ==
    (AllDone /\ runs["w1"].orderId = runs["w2"].orderId)
    => Cardinality(PaymentsOf(orders[CodeOf("w1")], runs["w1"].orderId)) <= 1

\* the same, for an order in ArrangingPayment that had no Payment of the notification
C11_NoEarlierPayment ==
    (/\ AllDone /\ runs["w1"].orderId = runs["w2"].orderId
     /\ PaymentsOf(last.before[CodeOf("w1")], runs["w1"].orderId) = {}
     /\ last.before[CodeOf("w1")].state = "ArrangingPayment")
    => Cardinality(PaymentsOf(orders[CodeOf("w1")], runs["w1"].orderId)) <= 1

\* what the two notifications give when they are handled one after the other
OneAfterTheOther(first, second) ==
    LET h1 == handleMollieStatusUpdate(last.before, runs[first].paymentMethodId,
                                       runs[first].orderId, runs[first].status, AllAccepted)
        h2 == handleMollieStatusUpdate(h1.orders, runs[second].paymentMethodId,
                                       runs[second].orderId, runs[second].status,
                                       AllAccepted)
    IN [orders |-> h2.orders, result |-> (first :> h1.result) @@ (second :> h2.result)]

DifferentOrders ==
    /\ \A w \in Workers : runs[w].pc # "idle"
    /\ CodeOf("w1") # CodeOf("w2")

\* C19: a call changes only the order whose code is the Mollie order's orderNumber:
\* an order that no call in progress or finished is about is as it was, and two
\* calls for different orders, interleaved in any way, leave each order and each
\* result as the two calls do one after the other, in either order.
C19_OnlyOwnOrder ==
    /\ \A code \in OrderCodes :
          (\A w \in Workers : runs[w].pc = "idle" \/ CodeOf(w) # code)
          => orders[code] = last.before[code]
    /\ (AllDone /\ DifferentOrders)
          => \A seq \in {OneAfterTheOther("w1", "w2"), OneAfterTheOther("w2", "w1")} :
                /\ orders = seq.orders
                /\ \A w \in Workers : runs[w].result = seq.result[w]

\* two notifications for two orders were handled in parallel, each adding a Payment
C19_Witness ==
    /\ AllDone /\ DifferentOrders
    /\ runs["w1"].orderId = "ord_A" /\ runs["w2"].orderId = "ord_C"
    /\ PaymentsOf(orders["T1"], "ord_A") # {} /\ PaymentsOf(last.before["T1"], "ord_A") = {}
    /\ PaymentsOf(orders["T2"], "ord_C") # {}
    /\ runs["w1"].result = "AutoCaptured" /\ runs["w2"].result = "Paid"


----------------------------------------------------------------------------
(* Properties of the pre-check of createPaymentIntent *)

\* the call asked whether the order can move to ArrangingPayment
DryRun == IntentCall /\ CallsOf("canTransitionTo") # {}

\* the call took the path of an order with nothing left to pay
ZeroAmountPath == IntentCall /\ ~IntentDefect /\ Outstanding = 0

\* C21: the pre-check of createPaymentIntent (canTransitionTo) is a dry run: whether
\* it succeeds or fails, every stored order is in the state it was in before the
\* call, and is unchanged, unless the call took the path of an order with nothing
\* left to pay.
C21_PreCheckIsDryRun ==
    (DryRun /\ ~ZeroAmountPath)
    => /\ \A code \in OrderCodes : orders[code].state = last.before[code].state
       /\ orders = last.before
       /\ CallsOf("transitionToState") = {}

\* the pre-check succeeded on an order in AddingItems, a Mollie order was created and
\* the order is still in AddingItems
C21_Witness ==
    /\ DryRun /\ ~ZeroAmountPath
    /\ \A i \in CallsOf("canTransitionTo") : last.calls[i].ok
    /\ last.result = "Url"
    /\ Pre.state = "AddingItems" /\ Post.state = "AddingItems"

\* the pre-check failed and the order is as it was
C21_FailedCase ==
    /\ DryRun /\ ~ZeroAmountPath
    /\ \E i \in CallsOf("canTransitionTo") : ~last.calls[i].ok
    /\ last.result = "PaymentIntentError"
    /\ Pre.state = "PaymentAuthorized" /\ Post = Pre


----------------------------------------------------------------------------
(* Properties of the two-step flow *)

\* the notifications handled so far were these statuses, in this order, each for a
\* payment method without auto-capture and each accepted by the Order Store where
\* it made a request
Flow(statuses) ==
    /\ last.op = "flow"
    /\ Len(last.log) = Len(statuses)
    /\ \A i \in DOMAIN statuses :
          /\ last.log[i].status = statuses[i]
          /\ last.log[i].paymentMethodId = "pm_manual"
          /\ last.log[i].accepted

\* exactly one Payment of the Mollie order, and it is Settled
OneSettledPayment ==
    /\ Cardinality(PaymentsOf(orders["T1"], FlowOrderId)) = 1
    /\ \A i \in PaymentsOf(orders["T1"], FlowOrderId) :
          orders["T1"].payments[i].state = "Settled"

\* completed came first: it failed with UnhandledTransitionError and changed nothing
CompletedFirstFailed ==
    /\ last.log[1].result = "UnhandledTransitionError"
    /\ last.log[1].orders = last.before

\* the Mollie order is for at least the total of the order
FlowAmountCoversTotal ==
    amountToCents(MollieOrders[FlowOrderId]) >= last.before["T1"].totalWithTax

\* C22 as stated: from an order in AddingItems with no Payments, authorized then
\* completed for the same Mollie order, without auto-capture and accepted by the
\* Order Store, ends with exactly one Payment of that transactionId, Settled; completed
\* first fails with UnhandledTransitionError without mutation, and authorized then
\* completed afterwards reaches the same end.
C22_TwoStepFlow ==
    /\ Flow(<<"authorized", "completed">>) => OneSettledPayment
    /\ Flow(<<"completed">>) => CompletedFirstFailed
    /\ Flow(<<"completed", "authorized", "completed">>)
          => (CompletedFirstFailed /\ OneSettledPayment)

\* C22, amended: the same when the Mollie order is for at least the total of the
\* order, so that the authorized Payment moves the order to PaymentAuthorized; the
\* order then ends in PaymentSettled with that one Payment.  Completed first fails
\* with UnhandledTransitionError without mutation whatever the amount.
C22_TwoStepFlowCovered ==
    /\ (Flow(<<"authorized", "completed">>) /\ FlowAmountCoversTotal)
          => (OneSettledPayment /\ orders["T1"].state = "PaymentSettled"
                /\ Len(orders["T1"].payments) = 1)
    /\ Flow(<<"completed">>) => CompletedFirstFailed
    /\ (Flow(<<"completed", "authorized", "completed">>) /\ FlowAmountCoversTotal)
          => (CompletedFirstFailed /\ OneSettledPayment
                /\ orders["T1"].state = "PaymentSettled"
                /\ Len(orders["T1"].payments) = 1)

\* authorized then completed settled the one Payment of the order
C22_Witness ==
    /\ Flow(<<"authorized", "completed">>) /\ FlowAmountCoversTotal
    /\ last.log[1].result = "Authorized" /\ last.log[2].result = "Completed"
    /\ last.log[1].orders["T1"].state = "PaymentAuthorized"
    /\ OneSettledPayment /\ orders["T1"].state = "PaymentSettled"

\* completed, then authorized, then completed
C22_CompletedFirstCase ==
    /\ Flow(<<"completed", "authorized", "completed">>) /\ FlowAmountCoversTotal
    /\ CompletedFirstFailed
    /\ last.log[3].result = "Completed"
    /\ OneSettledPayment


----------------------------------------------------------------------------
(* Properties of the validation of PromotionService *)

\* one of the operations has a code that is not among the available ones
HasUnknownCode(operations, available) ==
    \E i \in DOMAIN operations : operations[i].code \notin DOMAIN available

\* the input of the call names a condition or action that is not configured
UnknownCodeGiven ==
    \/ /\ last.op = "createPromotion"
       /\ \/ HasUnknownCode(last.input.conditions, availableConditions)
          \/ HasUnknownCode(last.input.actions, availableActions)
    \/ /\ last.op = "updatePromotion"
       /\ \/ \E i \in DOMAIN last.input.conditions :
                HasUnknownCode(last.input.conditions[i], availableConditions)
          \/ \E i \in DOMAIN last.input.actions :
                HasUnknownCode(last.input.actions[i], availableActions)

\* updatePromotion was given an id that no stored promotion has
UnknownIdGiven ==
    last.op = "updatePromotion" /\ last.input.id \notin DOMAIN last.before

\* C24: createPromotion or updatePromotion whose input has a condition or action code
\* that is not among the available conditions / actions, and updatePromotion whose id
\* matches no stored promotion, fail with an error, and the stored promotions and the
\* activePromotions cache are as they were before the call.
C24_InvalidInputSavesNothing ==
    (UnknownCodeGiven \/ UnknownIdGiven)
    => /\ last.result \in {"OperationNotFoundError", "EntityNotFoundError"}
       /\ promotions = last.before
       /\ activePromotions = last.cached

\* updatePromotion with a new name, enabled = false and an unknown action code for a
\* promotion that is stored, enabled and cached: it failed and changed nothing
C24_Witness ==
    /\ UnknownCodeGiven /\ ~UnknownIdGiven
    /\ last.op = "updatePromotion"
    /\ last.input.enabled = <<FALSE>> /\ last.input.name = <<"winter">>
    /\ last.before[last.input.id].enabled /\ last.before[last.input.id].name = "summer"
    /\ Len(last.cached) > 0
    /\ last.result = "OperationNotFoundError"
    /\ promotions[last.input.id].enabled /\ promotions[last.input.id].name = "summer"

\* createPromotion with an unknown condition code stored nothing
C24_CreateCase ==
    /\ UnknownCodeGiven /\ last.op = "createPromotion"
    /\ last.result = "OperationNotFoundError"
    /\ Len(promotions) = Len(last.before)

\* updatePromotion for an id that is not stored
C24_UnknownIdCase ==
    /\ UnknownIdGiven /\ ~UnknownCodeGiven
    /\ last.result = "EntityNotFoundError"
    /\ Len(last.cached) > 0


----------------------------------------------------------------------------
(* Properties of PromotionService calls in parallel *)

AllCompleted == \A w \in Workers : runs[w].pc = "done"

SomeSaved == \E w \in Workers : runs[w].result = "Promotion"

\* C23: under any interleaving of createPromotion / updatePromotion calls in
\* parallel (each await a yield point, each database call atomic), once all calls
\* have completed, one of them at least with a save, the activePromotions cache holds
\* exactly the stored promotions with enabled = true: no refresh that was answered
\* earlier overwrites the cache with rows older than the last save.
C23_CacheAfterParallelCalls ==
    (AllCompleted /\ SomeSaved)
    => {activePromotions[i] : i \in DOMAIN activePromotions} = EnabledPromotions

====
